---- MODULE Spec2Model ----
(***************************************************************************)
(* The real-time message router of main.py: the Socket.IO 'message'        *)
(* handler handle_message, the module-level Gemini model and MongoDB       *)
(* questions collection it uses, and the Socket.IO sessions it emits to.   *)
(*                                                                         *)
(* Text is a sequence of one-character strings, so that startswith, the    *)
(* slice data[5:] and strip are computed as Python computes them.  One     *)
(* handler invocation runs per inbound event; the invocations interleave   *)
(* at the blocking calls (generate_content, insert_one).                   *)
(***************************************************************************)
EXTENDS Integers, Sequences, FiniteSets, TLC

\* ---------------------------------------------------------------- bounds
\* the number of 'message' events handled in one run
MaxMsgs == 2

Msgs == 1..MaxMsgs

\* the Socket.IO session ids (request.sid), in the order they are given out
SidSeq == <<"sidA", "sidB">>
Sids == { SidSeq[i] : i \in DOMAIN SidSeq }

\* ------------------------------------------------------- text operations
Whitespace == {" ", "\t", "\n", "\r"}

\* str.startswith(prefix)
StartsWith(s, prefix) ==
    /\ Len(s) >= Len(prefix)
    /\ SubSeq(s, 1, Len(prefix)) = prefix

\* the slice s[n:]
SliceFrom(s, n) ==
    IF Len(s) <= n THEN <<>> ELSE SubSeq(s, n + 1, Len(s))

RECURSIVE LStrip(_)
LStrip(s) ==
    IF s # <<>> /\ Head(s) \in Whitespace THEN LStrip(Tail(s)) ELSE s

RECURSIVE RStrip(_)
RStrip(s) ==
    IF s # <<>> /\ s[Len(s)] \in Whitespace
    THEN RStrip(SubSeq(s, 1, Len(s) - 1))
    ELSE s

\* str.strip()
Strip(s) == RStrip(LStrip(s))

\* the command marker of line 48
Marker == <<"/", "h", "e", "l", "p">>

\* data.startswith('/help')
IsCommandText(text) == StartsWith(text, Marker)

\* a variant that forgets the strip
ExtractQuestionNoStrip(text) == SliceFrom(text, 5)

\* data[5:].strip()
ExtractQuestion(text) == Strip(SliceFrom(text, 5))

\* f"Generate a concise title for this question: {question}"
TitlePrompt(question) ==
    <<"Generate a concise title for this question: ">> \o question

\* ---------------------------------------------------- fixed notice texts
ConfigNotice == <<"Error: Gemini is not configured.">>
GenerateNotice == <<"Error: Failed to generate a response. Please try again.">>
SaveNotice == <<"Error: Failed to save the question. Please try again.">>
GenericNotice == <<"An error occurred while processing your request.">>
Notices == {ConfigNotice, GenerateNotice, SaveNotice, GenericNotice}

\* -------------------------------------------------------------- inputs
Str(text) == [type |-> "str", val |-> text]
NonStr == [type |-> "dict", val |-> <<>>]

\* payloads a client may send with a 'message' event
Payloads ==
    { Str(<<"h", "i">>),
      Str(<<"/", "h", "e", "l", "p", " ", " ", "q", " ">>),
      Str(<<"/", "h", "e", "l", "p", "f", "o", "o">>),
      NonStr }

\* the text generate_content(prompt).text returns to invocation m when the
\* call succeeds: an opaque text, different for every call
GeneratedText(m, prompt) == <<"generated", ToString(m)>> \o prompt

\* the value of datetime.now()
Now == "datetime.now()"

Unbound == <<"<unbound>">>

VARIABLES
    model,                 \* "None" or "GenerativeModel" (lines 36-42)
    questions_collection,  \* "None" or "Collection" (lines 24-33)
    documents,             \* documents of db["questions"], in insertion order
    sessions,              \* sid -> "new" | "connected" | "gone"
    task,                  \* msg -> the handler invocation for that event
    history                \* msg -> the calls and emits the invocation made

vars == <<model, questions_collection, documents, sessions, task, history>>

Connected == { s \in Sids : sessions[s] = "connected" }

IdleTask ==
    [pc |-> "idle", sid |-> "", data |-> NonStr,
     question |-> Unbound, response |-> Unbound, title |-> Unbound]

\* ------------------------------------------------------ recorded events
\* emit('message', payload, room=request.sid)
EmitToSender(sid, payload) ==
    [op |-> "emit", room |-> "sid", payload |-> payload,
     to |-> {sid} \cap Connected, ok |-> TRUE]

\* a variant that broadcasts with include_self=False
EmitBroadcastSkipSelf(sid, payload) ==
    [op |-> "emit", room |-> "all", payload |-> payload,
     to |-> Connected \ {sid}, ok |-> TRUE]

\* emit('message', payload, broadcast=True, include_self=True)
EmitBroadcast(sid, payload) ==
    [op |-> "emit", room |-> "all", payload |-> payload,
     to |-> Connected, ok |-> TRUE]

\* model.generate_content(prompt).text
GenerateContent(prompt, ok, text) ==
    [op |-> "generate_content", room |-> "none", payload |-> prompt,
     to |-> {}, ok |-> ok, out |-> text]

\* a variant that takes the answer from a variable shared by the handlers
QuestionDataShared(question, response, title) ==
    [question |-> question, answer |-> task[1].response, title |-> title,
     timestamp |-> Now, likes |-> 0, category |-> "AI Response",
     author |-> "Anonymous User"]

\* the question_data of lines 70-78
QuestionData(question, response, title) ==
    [question |-> question, answer |-> response, title |-> title,
     timestamp |-> Now, likes |-> 0, category |-> "AI Response",
     author |-> "Anonymous User"]

\* questions_collection.insert_one(question_data)
InsertOne(doc, ok) ==
    [op |-> "insert_one", room |-> "none", payload |-> <<>>,
     to |-> {}, ok |-> ok, doc |-> doc]

Record(m, events) == [history EXCEPT ![m] = @ \o events]

\* ------------------------------------------- the blocks of handle_message
\* a variant that compares without regard to case
LowerChar(c) ==
    CASE c = "H" -> "h" [] c = "E" -> "e" [] c = "L" -> "l" [] c = "P" -> "p"
      [] OTHER -> c
StartsWithHelpAnyCase(data) ==
    IsCommandText([i \in DOMAIN data.val |-> LowerChar(data.val[i])])

\* line 48: data.startswith('/help'); raises when data is no str
StartsWithHelp(data) == IsCommandText(data.val)

\* a variant that omits the check of line 49
ModelIsNoneUnchecked == FALSE

\* line 49: model is None
ModelIsNone == model = "None"

\* a variant that omits the check of line 68
HasCollectionUnchecked == TRUE

\* line 68: questions_collection is not None
HasCollection == questions_collection # "None"

\* lines 50-51
NotConfigured(t) == <<EmitToSender(t.sid, ConfigNotice)>>

\* line 62
ReplyResponse(t) == <<EmitToSender(t.sid, t.response)>>

\* a variant that broadcasts the notice of line 65
ExceptGenerateBroadcast(t) == <<EmitBroadcast(t.sid, GenerateNotice)>>

\* a variant that only prints at line 64 and returns
ExceptGenerateSilent(t) == <<>>

\* lines 63-66
ExceptGenerate(t) == <<EmitToSender(t.sid, GenerateNotice)>>

\* a variant that only prints at line 81 and goes on to line 85
ExceptInsertSilent(t) == <<EmitBroadcast(t.sid, t.response)>>

\* a variant without the return of line 83
ExceptInsertNoReturn(t) ==
    <<EmitToSender(t.sid, SaveNotice), EmitBroadcast(t.sid, t.response)>>

\* lines 80-83
ExceptInsert(t) == <<EmitToSender(t.sid, SaveNotice)>>

\* line 85
BroadcastResponse(t) == <<EmitBroadcast(t.sid, t.response)>>

\* line 87
RelayChat(t) == <<EmitBroadcast(t.sid, t.data.val)>>

\* lines 88-90
ExceptOuter(t) == <<EmitToSender(t.sid, GenericNotice)>>

\* ------------------------------------------------------------- actions
Init ==
    /\ model \in {"None", "GenerativeModel"}
    /\ questions_collection \in {"None", "Collection"}
    /\ documents = <<>>
    /\ sessions = [s \in Sids |-> "new"]
    /\ task = [m \in Msgs |-> IdleTask]
    /\ history = [m \in Msgs |-> <<>>]

\* a client connects and is given the next fresh sid
Connect(s) ==
    /\ sessions[s] = "new"
    /\ \A i, j \in DOMAIN SidSeq :
          (i < j /\ SidSeq[j] = s) => sessions[SidSeq[i]] # "new"
    /\ sessions' = [sessions EXCEPT ![s] = "connected"]
    /\ UNCHANGED <<model, questions_collection, documents, task, history>>

\* a client disconnects; its sid is never used again
Disconnect(s) ==
    /\ sessions[s] = "connected"
    /\ sessions' = [sessions EXCEPT ![s] = "gone"]
    /\ UNCHANGED <<model, questions_collection, documents, task, history>>

\* a variant that handles one event at a time: a new event waits until no
\* other invocation is inside a blocking call
HandleMessageSerial(m, s, data) ==
    LET t == [IdleTask EXCEPT !.sid = s, !.data = data] IN
    /\ \A k \in Msgs : task[k].pc \in {"idle", "done"}
    /\ task[m].pc = "idle"
    /\ \A k \in Msgs : k < m => task[k].pc # "idle"
    /\ sessions[s] = "connected"
    /\ IF data.type # "str"
       THEN /\ history' = Record(m, ExceptOuter(t))
            /\ task' = [task EXCEPT ![m] = [t EXCEPT !.pc = "done"]]
       ELSE IF ~StartsWithHelp(data)
       THEN /\ history' = Record(m, RelayChat(t))
            /\ task' = [task EXCEPT ![m] = [t EXCEPT !.pc = "done"]]
       ELSE IF ModelIsNone
       THEN /\ history' = Record(m, NotConfigured(t))
            /\ task' = [task EXCEPT ![m] = [t EXCEPT !.pc = "done"]]
       ELSE /\ task' = [task EXCEPT ![m] =
                          [t EXCEPT !.pc = "answer",
                                    !.question = ExtractQuestion(data.val)]]
            /\ UNCHANGED history
    /\ UNCHANGED <<model, questions_collection, documents, sessions>>

\* lines 45-53 and 86-90: a 'message' event of session s arrives and
\* handle_message(data) runs up to its first blocking call: the
\* classification, the chat relay, the configuration check, and the
\* outermost except for a payload that has no startswith
HandleMessage(m, s, data) ==
    LET t == [IdleTask EXCEPT !.sid = s, !.data = data] IN
    /\ task[m].pc = "idle"
    /\ \A k \in Msgs : k < m => task[k].pc # "idle"
    /\ sessions[s] = "connected"
    /\ IF data.type # "str"
       THEN /\ history' = Record(m, ExceptOuter(t))
            /\ task' = [task EXCEPT ![m] = [t EXCEPT !.pc = "done"]]
       ELSE IF ~StartsWithHelp(data)
       THEN /\ history' = Record(m, RelayChat(t))
            /\ task' = [task EXCEPT ![m] = [t EXCEPT !.pc = "done"]]
       ELSE IF ModelIsNone
       THEN /\ history' = Record(m, NotConfigured(t))
            /\ task' = [task EXCEPT ![m] = [t EXCEPT !.pc = "done"]]
       ELSE /\ task' = [task EXCEPT ![m] =
                          [t EXCEPT !.pc = "answer",
                                    !.question = ExtractQuestion(data.val)]]
            /\ UNCHANGED history
    /\ UNCHANGED <<model, questions_collection, documents, sessions>>

\* line 55 returns, or raises (lines 63-66)
GenerateAnswer(m) ==
    LET t == task[m]
        text == GeneratedText(m, t.question) IN
    /\ t.pc = "answer"
    /\ \/ /\ history' = Record(m, <<GenerateContent(t.question, TRUE, text)>>)
          /\ task' = [task EXCEPT ![m].pc = "title", ![m].response = text]
       \/ /\ history' = Record(m, <<GenerateContent(t.question, FALSE, Unbound)>>
                                  \o ExceptGenerate(t))
          /\ task' = [task EXCEPT ![m].pc = "done"]
    /\ UNCHANGED <<model, questions_collection, documents, sessions>>

\* a variant in which a failing title call is swallowed and the handler
\* goes on to persist without a title
GenerateTitleSwallow(m) ==
    LET t == task[m]
        title_prompt == TitlePrompt(t.question)
        text == GeneratedText(m, title_prompt) IN
    /\ t.pc = "title"
    /\ \/ /\ history' = Record(m, <<GenerateContent(title_prompt, TRUE, text)>>
                                  \o ReplyResponse(t))
          /\ task' = [task EXCEPT ![m].pc = "persist", ![m].title = text]
       \/ /\ history' = Record(m, <<GenerateContent(title_prompt, FALSE, Unbound)>>)
          /\ task' = [task EXCEPT ![m].pc = "persist"]
    /\ UNCHANGED <<model, questions_collection, documents, sessions>>

\* lines 56-62: the title call returns and the response is emitted to the
\* sender, or the title call raises (lines 63-66)
GenerateTitle(m) ==
    LET t == task[m]
        title_prompt == TitlePrompt(t.question)
        text == GeneratedText(m, title_prompt) IN
    /\ t.pc = "title"
    /\ \/ /\ history' = Record(m, <<GenerateContent(title_prompt, TRUE, text)>>
                                  \o ReplyResponse(t))
          /\ task' = [task EXCEPT ![m].pc = "persist", ![m].title = text]
       \/ /\ history' = Record(m, <<GenerateContent(title_prompt, FALSE, Unbound)>>
                                  \o ExceptGenerate(t))
          /\ task' = [task EXCEPT ![m].pc = "done"]
    /\ UNCHANGED <<model, questions_collection, documents, sessions>>

\* lines 68-85: the insert (when there is a collection) and the broadcast
Persist(m) ==
    LET t == task[m]
        question_data == QuestionData(t.question, t.response, t.title) IN
    /\ t.pc = "persist"
    /\ IF ~HasCollection
       THEN /\ history' = Record(m, BroadcastResponse(t))
            /\ UNCHANGED documents
       ELSE \/ \* line 79 returns
               /\ documents' = Append(documents, question_data)
               /\ history' = Record(m, <<InsertOne(question_data, TRUE)>>
                                       \o BroadcastResponse(t))
            \/ \* line 79 raises
               /\ UNCHANGED documents
               /\ history' = Record(m, <<InsertOne(question_data, FALSE)>>
                                       \o ExceptInsert(t))
    /\ task' = [task EXCEPT ![m].pc = "done"]
    /\ UNCHANGED <<model, questions_collection, sessions>>

Next ==
    \/ \E s \in Sids : Connect(s)
    \/ \E s \in Sids : Disconnect(s)
    \/ \E m \in Msgs, s \in Sids, data \in Payloads : HandleMessage(m, s, data)
    \/ \E m \in Msgs : GenerateAnswer(m)
    \/ \E m \in Msgs : GenerateTitle(m)
    \/ \E m \in Msgs : Persist(m)

Spec == Init /\ [][Next]_vars

\* every handler invocation that has started keeps running: each of its
\* blocking calls returns or raises
Fairness ==
    \A m \in Msgs :
        /\ WF_vars(GenerateAnswer(m))
        /\ WF_vars(GenerateTitle(m))
        /\ WF_vars(Persist(m))

FairSpec == Spec /\ Fairness

\* ------------------------------------------- handle_message when emit raises
\* emit(...) raises: nothing is sent
EmitRaises(e) == [e EXCEPT !.ok = FALSE, !.to = {}]

\* an emit inside a try: it returns and the handler goes on at pc, or it
\* raises and the except clause that encloses it runs
TryEmit(e, pc, except) ==
    { [events |-> <<e>>, pc |-> pc] }
      \cup { [events |-> <<EmitRaises(e)>> \o x.events, pc |-> x.pc] : x \in except }

\* an exception leaves handle_message
Escapes == { [events |-> <<>>, pc |-> "raised"] }

\* lines 88-90: the emit of line 90 is inside no try
OuterExcept(t) == TryEmit(ExceptOuter(t)[1], "done", Escapes)

\* lines 63-66, inside the try of line 47
InnerExcept(t) == TryEmit(ExceptGenerate(t)[1], "done", OuterExcept(t))

Outcome(m, t, x) ==
    /\ history' = Record(m, x.events)
    /\ task' = [task EXCEPT ![m] = [t EXCEPT !.pc = x.pc]]

\* lines 45-53 and 86-90, as HandleMessage
HandleMessageEmit(m, s, data) ==
    LET t == [IdleTask EXCEPT !.sid = s, !.data = data] IN
    /\ task[m].pc = "idle"
    /\ \A k \in Msgs : k < m => task[k].pc # "idle"
    /\ sessions[s] = "connected"
    /\ IF data.type # "str"
       THEN \E x \in OuterExcept(t) : Outcome(m, t, x)
       ELSE IF ~StartsWithHelp(data)
       THEN \E x \in TryEmit(RelayChat(t)[1], "done", OuterExcept(t)) :
               Outcome(m, t, x)
       ELSE IF ModelIsNone
       THEN \E x \in TryEmit(NotConfigured(t)[1], "done", OuterExcept(t)) :
               Outcome(m, t, x)
       ELSE /\ task' = [task EXCEPT ![m] =
                          [t EXCEPT !.pc = "answer",
                                    !.question = ExtractQuestion(data.val)]]
            /\ UNCHANGED history
    /\ UNCHANGED <<model, questions_collection, documents, sessions>>

\* line 55 returns, or raises (lines 63-66)
GenerateAnswerEmit(m) ==
    LET t == task[m]
        text == GeneratedText(m, t.question) IN
    /\ t.pc = "answer"
    /\ \/ /\ history' = Record(m, <<GenerateContent(t.question, TRUE, text)>>)
          /\ task' = [task EXCEPT ![m].pc = "title", ![m].response = text]
       \/ \E x \in InnerExcept(t) :
             /\ history' = Record(m, <<GenerateContent(t.question, FALSE, Unbound)>>
                                     \o x.events)
             /\ task' = [task EXCEPT ![m].pc = x.pc]
    /\ UNCHANGED <<model, questions_collection, documents, sessions>>

\* lines 56-62, or lines 63-66 when line 57 or the emit of line 62 raises
GenerateTitleEmit(m) ==
    LET t == task[m]
        title_prompt == TitlePrompt(t.question)
        text == GeneratedText(m, title_prompt) IN
    /\ t.pc = "title"
    /\ \/ \E x \in TryEmit(ReplyResponse(t)[1], "persist", InnerExcept(t)) :
             /\ history' = Record(m, <<GenerateContent(title_prompt, TRUE, text)>>
                                     \o x.events)
             /\ task' = [task EXCEPT ![m].pc = x.pc, ![m].title = text]
       \/ \E x \in InnerExcept(t) :
             /\ history' = Record(m, <<GenerateContent(title_prompt, FALSE, Unbound)>>
                                     \o x.events)
             /\ task' = [task EXCEPT ![m].pc = x.pc]
    /\ UNCHANGED <<model, questions_collection, documents, sessions>>

\* lines 68-85, with the outermost except for the emits of lines 82 and 85
PersistEmit(m) ==
    LET t == task[m]
        question_data == QuestionData(t.question, t.response, t.title) IN
    /\ t.pc = "persist"
    /\ IF ~HasCollection
       THEN /\ \E x \in TryEmit(BroadcastResponse(t)[1], "done", OuterExcept(t)) :
                 Outcome(m, t, x)
            /\ UNCHANGED documents
       ELSE \/ /\ documents' = Append(documents, question_data)
               /\ \E x \in TryEmit(BroadcastResponse(t)[1], "done", OuterExcept(t)) :
                     /\ history' = Record(m, <<InsertOne(question_data, TRUE)>>
                                             \o x.events)
                     /\ task' = [task EXCEPT ![m].pc = x.pc]
            \/ /\ UNCHANGED documents
               /\ \E x \in TryEmit(ExceptInsert(t)[1], "done", OuterExcept(t)) :
                     /\ history' = Record(m, <<InsertOne(question_data, FALSE)>>
                                             \o x.events)
                     /\ task' = [task EXCEPT ![m].pc = x.pc]
    /\ UNCHANGED <<model, questions_collection, sessions>>

EmitNext ==
    \/ \E s \in Sids : Connect(s)
    \/ \E s \in Sids : Disconnect(s)
    \/ \E m \in Msgs, s \in Sids, data \in Payloads : HandleMessageEmit(m, s, data)
    \/ \E m \in Msgs : GenerateAnswerEmit(m)
    \/ \E m \in Msgs : GenerateTitleEmit(m)
    \/ \E m \in Msgs : PersistEmit(m)

\* the handler where an emit may raise
EmitSpec == Init /\ [][EmitNext]_vars

\* ------------------------------------------- the classification of line 48
\* texts around the command marker
ClassifyTexts ==
    { <<>>,
      <<"h", "i">>,
      <<"/", "h", "e", "l">>,
      <<"/", "h", "e", "l", "p">>,
      <<"/", "h", "e", "l", "p", " ", " ">>,
      <<"/", "h", "e", "l", "p", "\t", "q", "\n">>,
      <<"/", "h", "e", "l", "p", "f", "o", "o">>,
      <<"/", "H", "E", "L", "P", " ", "q">>,
      <<"/", "H", "e", "l", "p">>,
      <<" ", "/", "h", "e", "l", "p">> }

ClassifyNext ==
    \/ \E s \in Sids : Connect(s)
    \/ \E m \in Msgs, s \in Sids, text \in ClassifyTexts :
          HandleMessage(m, s, Str(text))
    \/ \E m \in Msgs : GenerateAnswer(m)

\* handle_message up to the return of line 55, on the texts of ClassifyTexts
ClassifySpec == Init /\ [][ClassifyNext]_vars

\* ------------------------------------------------ reading the histories
Started(m) == task[m].pc # "idle"
Finished(m) == task[m].pc = "done"
Sender(m) == task[m].sid
Text(m) == task[m].data.val

IsChat(m) ==
    Started(m) /\ task[m].data.type = "str" /\ ~StartsWith(Text(m), Marker)
IsCommand(m) ==
    Started(m) /\ task[m].data.type = "str" /\ StartsWith(Text(m), Marker)

Emits(m) == SelectSeq(history[m], LAMBDA e : e.op = "emit")
Broadcasts(m) == SelectSeq(history[m], LAMBDA e : e.op = "emit" /\ e.room = "all")
Replies(m) == SelectSeq(history[m], LAMBDA e : e.op = "emit" /\ e.room = "sid")
Calls(m) == SelectSeq(history[m], LAMBDA e : e.op = "generate_content")
Inserts(m) == SelectSeq(history[m], LAMBDA e : e.op = "insert_one")

\* how many payloads session s was delivered on behalf of message m
ReceivedBy(m, s) ==
    Len(SelectSeq(history[m], LAMBDA e : e.op = "emit" /\ s \in e.to))

AnswerOk(m) == Len(Calls(m)) >= 1 /\ Calls(m)[1].ok
AnswerFailed(m) == Len(Calls(m)) >= 1 /\ ~Calls(m)[1].ok
TitleOk(m) == Len(Calls(m)) >= 2 /\ Calls(m)[2].ok
TitleFailed(m) == Len(Calls(m)) >= 2 /\ ~Calls(m)[2].ok
InsertOk(m) == \E i \in DOMAIN Inserts(m) : Inserts(m)[i].ok
InsertFailed(m) == \E i \in DOMAIN Inserts(m) : ~Inserts(m)[i].ok

AllSpace(s) == \A i \in DOMAIN s : s[i] \in Whitespace

\* q is rest without its leading and trailing whitespace
IsTrimOf(q, rest) ==
    /\ q = <<>> \/ (q[1] \notin Whitespace /\ q[Len(q)] \notin Whitespace)
    /\ \E i \in 0..Len(rest) :
          /\ i + Len(q) <= Len(rest)
          /\ SubSeq(rest, i + 1, i + Len(q)) = q
          /\ AllSpace(SubSeq(rest, 1, i))
          /\ AllSpace(SubSeq(rest, i + Len(q) + 1, Len(rest)))

\* q is the query of the command text: what follows /help, trimmed
IsQueryOf(q, text) ==
    \E rest \in {SubSeq(text, 6, Len(text))} :
        text = Marker \o rest /\ IsTrimOf(q, rest)

TextWithBlanks == <<"/", "h", "e", "l", "p", " ", " ", "q", " ">>

\* ------------------------------------------------------------------ C1
C1_Arrives(m) ==
    /\ task[m].pc = "idle" /\ task'[m].pc # "idle"
    /\ task'[m].data.type = "str"
    /\ ~StartsWith(task'[m].data.val, Marker)

\* C1: a message whose text does not start with /help is broadcast, with
\* exactly that text, to every session connected at that moment, the sender
\* included; the handler makes no generate_content call and no insert_one,
\* and does nothing more for that message afterwards.
C1_ChatRelayedUnchanged ==
    [][\A m \in Msgs :
          /\ C1_Arrives(m) =>
                /\ task'[m].pc = "done"
                /\ task'[m].sid \in Connected
                /\ history'[m] = << [op |-> "emit", room |-> "all",
                                     payload |-> task'[m].data.val,
                                     to |-> Connected, ok |-> TRUE] >>
                /\ documents' = documents
          /\ (IsChat(m) /\ Finished(m)) => history'[m] = history[m]]_vars

C1_Witness ==
    \E m \in Msgs :
        /\ IsChat(m) /\ Finished(m)
        /\ Len(history[m]) = 1
        /\ history[m][1].payload = <<"h", "i">>
        /\ history[m][1].to = Sids

\* ------------------------------------------------------------------ C2
C2_AllSucceeded(m) ==
    IsCommand(m) /\ AnswerOk(m) /\ TitleOk(m) /\ InsertOk(m)

\* C2: for a command /help <q> whose two gateway calls and whose append
\* succeed, exactly one append is made, its question is <q> trimmed, and
\* exactly one broadcast to all is made, carrying the text the answer call
\* of that message returned.
C2_OneAppendOneBroadcast ==
    \A m \in Msgs :
        C2_AllSucceeded(m) =>
            /\ Len(Inserts(m)) = 1
            /\ IsQueryOf(Inserts(m)[1].doc.question, Text(m))
            /\ Calls(m)[1].payload = Inserts(m)[1].doc.question
            /\ Len(Broadcasts(m)) = 1
            /\ Broadcasts(m)[1].payload = Calls(m)[1].out

C2_Witness ==
    \E m \in Msgs :
        /\ C2_AllSucceeded(m) /\ Finished(m)
        /\ Text(m) = TextWithBlanks
        /\ Inserts(m)[1].doc.question = <<"q">>
        /\ Broadcasts(m)[1].to = Sids

\* ------------------------------------------------------------------ C3
\* C3: when model is None, a command gets exactly one reply to its sender
\* alone, carrying the configuration notice; nothing is broadcast, no
\* gateway call is made and nothing is appended.
C3_NotConfiguredReply ==
    \A m \in Msgs :
        (IsCommand(m) /\ model = "None") =>
            /\ Finished(m)
            /\ Len(history[m]) = 1
            /\ history[m][1].op = "emit"
            /\ history[m][1].room = "sid"
            /\ history[m][1].payload = <<"Error: Gemini is not configured.">>
            /\ history[m][1].to = {Sender(m)}
            /\ documents = <<>>

C3_Witness ==
    \E m \in Msgs :
        /\ IsCommand(m) /\ model = "None" /\ Finished(m)
        /\ history[m][1].to = {Sender(m)}
        /\ Connected = Sids

\* ------------------------------------------------------------------ C4
\* C4: when the answer call fails, the sender is sent the "failed to
\* generate a response" notice exactly once, as a reply to the sender alone;
\* the title call is never made, nothing is appended, nothing is broadcast.
C4_AnswerFailureReply ==
    \A m \in Msgs :
        AnswerFailed(m) =>
            /\ Finished(m)
            /\ Len(history[m]) = 2
            /\ history[m][1].op = "generate_content"
            /\ history[m][2].op = "emit"
            /\ history[m][2].room = "sid"
            /\ history[m][2].payload =
                  <<"Error: Failed to generate a response. Please try again.">>
            /\ history[m][2].to \subseteq {Sender(m)}
            /\ \A s \in Sids \ {Sender(m)} : ReceivedBy(m, s) = 0

C4_Witness ==
    \E m \in Msgs :
        /\ AnswerFailed(m) /\ Finished(m)
        /\ ReceivedBy(m, Sender(m)) = 1
        /\ Connected = Sids

\* ------------------------------------------------------------------ C5
\* C5: handling one message makes exactly one outbound emission, a broadcast
\* to all or a reply to the sender, so that no session is delivered more
\* than one payload for one inbound message.
C5_ExactlyOneEmission ==
    \A m \in Msgs :
        Finished(m) =>
            /\ Len(Emits(m)) = 1
            /\ \A s \in Sids : ReceivedBy(m, s) <= 1

\* ------------------------------------------------------------------ C6
OthersReceived(m) == \E s \in Sids \ {Sender(m)} : ReceivedBy(m, s) > 0

\* C6 as stated: a session other than the sender is delivered something for
\* a command only when the answer call, the title call and the append all
\* succeeded.
C6_OthersOnlyOnFullSuccess ==
    \A m \in Msgs :
        (IsCommand(m) /\ OthersReceived(m)) =>
            AnswerOk(m) /\ TitleOk(m) /\ InsertOk(m)

\* C6 as amended: a session other than the sender is delivered something
\* for a command only when the answer call and the title call succeeded and
\* the append succeeded or was not attempted because questions_collection
\* is None; when one of the three steps fails the other sessions are
\* delivered nothing.
C6_OthersOnlyWithoutFailure ==
    \A m \in Msgs :
        /\ (IsCommand(m) /\ OthersReceived(m)) =>
              /\ AnswerOk(m) /\ TitleOk(m)
              /\ \/ InsertOk(m)
                 \/ questions_collection = "None" /\ Len(Inserts(m)) = 0
        /\ (IsCommand(m)
              /\ (AnswerFailed(m) \/ TitleFailed(m) \/ InsertFailed(m))) =>
              ~OthersReceived(m)

C6_Witness ==
    /\ \E m \in Msgs :
          /\ IsCommand(m) /\ Finished(m) /\ InsertOk(m)
          /\ OthersReceived(m)
    /\ \E m \in Msgs :
          /\ IsCommand(m) /\ Finished(m) /\ InsertFailed(m)
          /\ Connected = Sids

\* ------------------------------------------------------------------ C7
\* C7: when the title call fails after the answer call succeeded, the
\* answer is kept: the command goes on and the answer is broadcast to all.
C7_TitleFailureKeepsAnswer ==
    \A m \in Msgs :
        (Finished(m) /\ AnswerOk(m) /\ TitleFailed(m)) =>
            \E i \in DOMAIN Broadcasts(m) :
                Broadcasts(m)[i].payload = Calls(m)[1].out

\* ------------------------------------------------------------------ C8
\* C8: the steps of a command run in the order gateway calls, persistence,
\* broadcast: no session, the sender included, is sent the answer before
\* the append for that message has been attempted and has completed.
C8_AnswerSentAfterAppend ==
    \A m \in Msgs :
        \A i \in DOMAIN history[m] :
            (/\ AnswerOk(m)
             /\ history[m][i].op = "emit"
             /\ history[m][i].payload = Calls(m)[1].out) =>
                \E j \in 1..(i - 1) : history[m][j].op = "insert_one"

\* ------------------------------------------------------------------ C9
\* the sender of m has been sent a definitive outcome: the answer, or the
\* configuration, generation-failure or generic notice; it was delivered
\* unless the sender had disconnected
C9_Outcome(m) ==
    \E i \in DOMAIN history[m] :
        LET e == history[m][i] IN
        /\ e.op = "emit"
        /\ \/ e.payload \in
                 { <<"Error: Gemini is not configured.">>,
                   <<"Error: Failed to generate a response. Please try again.">>,
                   <<"An error occurred while processing your request.">> }
           \/ AnswerOk(m) /\ e.payload = Calls(m)[1].out
        /\ Sender(m) \in e.to \/ sessions[Sender(m)] = "gone"

\* C9: when every started handler keeps running and every gateway and store
\* call returns or raises, the sender of every command is eventually sent a
\* definitive outcome: the answer or one of the fixed notices.
\* (Both predicates are stable, so "always eventually" is "leads to" here.)
C9_SenderGetsOutcome ==
    \A m \in Msgs : []<>(IsCommand(m) => C9_Outcome(m))

C9_Witness ==
    \E m \in Msgs :
        /\ IsCommand(m) /\ Finished(m) /\ TitleFailed(m)
        /\ C9_Outcome(m)
        /\ ReceivedBy(m, Sender(m)) = 1

\* ----------------------------------------------------------------- C10
RangeOf(seq) == { seq[i] : i \in DOMAIN seq }

C10_Own(m) ==
    LET doc == Inserts(m)[1].doc IN
    /\ Len(Inserts(m)) = 1
    /\ Len(Broadcasts(m)) = 1
    /\ IsQueryOf(doc.question, Text(m))
    /\ doc.answer = Calls(m)[1].out
    /\ doc.title = Calls(m)[2].out
    /\ Broadcasts(m)[1].payload = Calls(m)[1].out
    /\ doc \in RangeOf(documents)

\* C10: two commands of two different sessions, handled concurrently with
\* succeeding gateway and store, each make exactly one append and exactly
\* one broadcast to all; the question, answer and title of each record and
\* the payload of each broadcast come from that command's own message, and
\* the collection holds one record per successful append.
C10_NoCrossContamination ==
    \A m1, m2 \in Msgs :
        (/\ m1 # m2
         /\ C2_AllSucceeded(m1) /\ C2_AllSucceeded(m2)
         /\ Sender(m1) # Sender(m2)) =>
            /\ C10_Own(m1)
            /\ C10_Own(m2)
            /\ Calls(m1)[1].out # Calls(m2)[1].out
            /\ Len(documents) = Cardinality({ m \in Msgs : InsertOk(m) })

\* the second command was appended first: the two handlers overlapped
C10_Witness ==
    /\ C2_AllSucceeded(1) /\ C2_AllSucceeded(2)
    /\ Sender(1) # Sender(2)
    /\ Text(1) # Text(2)
    /\ documents[1] = Inserts(2)[1].doc
    /\ documents[2] = Inserts(1)[1].doc

\* ----------------------------------------------------------------- C11
\* C11: a record is appended at most once per inbound message, and only for
\* a command whose answer call and title call have both succeeded before;
\* the collection never holds more records than there are commands whose
\* two gateway calls both succeeded.
C11_AppendOnceAfterBothCalls ==
    /\ \A m \in Msgs :
          /\ Len(Inserts(m)) <= 1
          /\ \A i \in DOMAIN history[m] :
                history[m][i].op = "insert_one" =>
                    /\ IsCommand(m)
                    /\ \E j, k \in 1..(i - 1) :
                          /\ j < k
                          /\ history[m][j].op = "generate_content"
                          /\ history[m][j].ok
                          /\ history[m][k].op = "generate_content"
                          /\ history[m][k].ok
    /\ Len(documents) <= Cardinality({ m \in Msgs : AnswerOk(m) /\ TitleOk(m) })
    /\ Len(documents) = Cardinality({ m \in Msgs : InsertOk(m) })

C11_Witness ==
    /\ Len(documents) = 1
    /\ \E m \in Msgs : Finished(m) /\ InsertOk(m)
    /\ \E m \in Msgs : Finished(m) /\ AnswerOk(m) /\ TitleFailed(m)

\* ----------------------------------------------------------------- C12
\* something failed while m was handled: the payload is no str, or a
\* gateway call, the insert or an emit raised
FailureIn(m) ==
    \/ Started(m) /\ task[m].data.type # "str"
    \/ \E i \in DOMAIN history[m] : ~history[m][i].ok

\* C12: no failure raised while a message is handled leaves handle_message
\* (a payload that is no str, a gateway failure, a store failure, a failing
\* emit): the handling ends with a notice sent to the sender alone.
C12_NoFailureEscapes ==
    \A m \in Msgs :
        /\ task[m].pc # "raised"
        /\ (Finished(m) /\ FailureIn(m)) =>
              LET last == history[m][Len(history[m])] IN
              /\ last.op = "emit" /\ last.ok
              /\ last.room = "sid"
              /\ last.payload \in Notices

\* ----------------------------------------------------------------- C13
BeginsWithLowerCaseHelp(text) ==
    /\ Len(text) >= 5
    /\ text[1] = "/" /\ text[2] = "h" /\ text[3] = "e"
    /\ text[4] = "l" /\ text[5] = "p"

\* C13: a text is a command exactly when it starts with the literal /help,
\* case-sensitively (/HELP q is relayed as chat, /helpfoo is a command with
\* query foo); the query is what follows the five characters, trimmed; an
\* empty or all-whitespace remainder gives the query "", which is still
\* passed to the answer call instead of being relayed as chat.
C13_Classification ==
    \A m \in Msgs :
        (Started(m) /\ task[m].data.type = "str") =>
            /\ ~BeginsWithLowerCaseHelp(Text(m)) =>
                  /\ Len(history[m]) = 1
                  /\ Len(Broadcasts(m)) = 1
                  /\ Broadcasts(m)[1].payload = Text(m)
            /\ BeginsWithLowerCaseHelp(Text(m)) =>
                  /\ Len(Broadcasts(m)) = 0
                  /\ model # "None" =>
                        /\ IsQueryOf(task[m].question, Text(m))
                        /\ task[m].pc = "answer" \/ Len(Calls(m)) >= 1
                        /\ Len(Calls(m)) >= 1 =>
                              Calls(m)[1].payload = task[m].question
            /\ (Text(m) = <<"/", "h", "e", "l", "p", "f", "o", "o">>
                  /\ model # "None") => task[m].question = <<"f", "o", "o">>
            /\ (Text(m) \in { <<"/", "h", "e", "l", "p">>,
                              <<"/", "h", "e", "l", "p", " ", " ">> }
                  /\ model # "None") => task[m].question = <<>>
            /\ Text(m) = <<"/", "H", "E", "L", "P", " ", "q">> =>
                  Broadcasts(m)[1].payload = Text(m)

C13_Witness ==
    /\ \E m \in Msgs :
          /\ Text(m) = <<"/", "h", "e", "l", "p", " ", " ">>
          /\ Len(Calls(m)) = 1
          /\ Calls(m)[1].payload = <<>>
    /\ \E m \in Msgs :
          /\ Started(m)
          /\ Text(m) = <<"/", "H", "E", "L", "P", " ", "q">>
          /\ Len(Broadcasts(m)) = 1

\* ----------------------------------------------------------------- C14
\* the invocation for m is inside a blocking call that has not returned
Suspended(m) == task[m].pc \in {"answer", "title", "persist"}

C16_SaveFailureReply ==
    \A m \in Msgs :
        (AnswerOk(m) /\ TitleOk(m) /\ InsertFailed(m)) =>
            LET last == history[m][Len(history[m])]
                notices == SelectSeq(history[m], LAMBDA e :
                    /\ e.op = "emit"
                    /\ e.payload =
                         <<"Error: Failed to save the question. Please try again.">>)
            IN
            /\ Finished(m)
            /\ Len(notices) = 1
            /\ last = notices[1]
            /\ last.room = "sid"
            /\ last.to \subseteq {Sender(m)}
            /\ history[m][Len(history[m]) - 1].op = "insert_one"
            /\ Len(Broadcasts(m)) = 0
            /\ \A s \in Sids \ {Sender(m)} : ReceivedBy(m, s) = 0

C16_Witness ==
    \E m \in Msgs :
        /\ AnswerOk(m) /\ TitleOk(m) /\ InsertFailed(m) /\ Finished(m)
        /\ history[m][Len(history[m])].to = {Sender(m)}
        /\ Connected = Sids

\* ----------------------------------------------------------------- C17
\* the sender of m was sent, to its own room or by a broadcast, a payload
\* that satisfies Is
SenderWasSent(m, Is(_)) ==
    \E i \in DOMAIN history[m] :
        /\ history[m][i].op = "emit"
        /\ history[m][i].room \in {"sid", "all"}
        /\ Is(history[m][i].payload)

\* C17: for every command, the sender is never sent both the generated
\* answer and an error notice for that same message.
C17_NeverAnswerAndNotice ==
    \A m \in Msgs :
        (IsCommand(m) /\ AnswerOk(m)) =>
            ~(/\ SenderWasSent(m, LAMBDA p : p = Calls(m)[1].out)
              /\ SenderWasSent(m, LAMBDA p : p \in Notices))

\* ----------------------------------------------------------------- C18
C18_Persists(m) ==
    /\ questions_collection = "None"
    /\ task[m].pc = "persist"
    /\ task'[m].pc # "persist"

\* C18: when questions_collection is None and both gateway calls succeeded,
\* the command skips persistence (no append is attempted, no error notice
\* is sent) and the answer is broadcast to all the sessions connected at
\* that moment, the sender included.
C18_NoStoreStillBroadcasts ==
    [][\A m \in Msgs :
          C18_Persists(m) =>
              /\ AnswerOk(m) /\ TitleOk(m)
              /\ task'[m].pc = "done"
              /\ documents' = documents
              /\ history'[m] = history[m] \o
                    << [op |-> "emit", room |-> "all",
                        payload |-> Calls(m)[1].out,
                        to |-> Connected, ok |-> TRUE] >>
              /\ \A i \in DOMAIN history'[m] :
                    /\ history'[m][i].op # "insert_one"
                    /\ history'[m][i].op = "emit" =>
                          history'[m][i].payload \notin Notices]_vars

C18_Witness ==
    \E m \in Msgs :
        /\ questions_collection = "None"
        /\ Finished(m) /\ AnswerOk(m) /\ TitleOk(m)
        /\ Len(Broadcasts(m)) = 1
        /\ Broadcasts(m)[1].to = Sids
        /\ Sender(m) \in Broadcasts(m)[1].to

====
